---- MODULE Spec2Model ----
(***************************************************************************)
(* Model of the IQFeed client's connection loop (src/src/client.rs):       *)
(* IQFeed::process reads bytes from the stream into self.buffer, looks for *)
(* the delimiter with memchr, drains frames, decodes them with Ops::parse  *)
(* and sends them on an async_channel Sender.                              *)
(***************************************************************************)
EXTENDS Integers, Sequences, FiniteSets, TLC

\* ---------------------------------------------------------------- bounds
\* Longest byte stream the peer puts on the wire.
MaxStream == 4
\* Reads returning zero bytes (end of stream) that one behaviour follows.
MaxEofReads == 2
\* Capacity of the bounded channel the caller hands to IQFeed::new.
ChanCap == 1
\* Longest byte stream of the peer in the specification of the whole client.
MaxClientStream == 2
\* Calls of watch_trades that one behaviour follows.
MaxWatches == 1

\* ------------------------------------------------------- program constants
\* b'\n', the needle of memchr.
LF == 10
\* vec![0; 2048], the scratch buffer of one read.
ScratchLen == 2048
\* memchr's None.
None == -1

\* The bytes the peer may send: the delimiter and two content bytes (X, Y).
Byte == {LF, 88, 89}

\* b"S,SET PROTOCOL,6.2\n"
Handshake ==
    <<83, 44, 83, 69, 84, 32, 80, 82, 79, 84, 79, 67, 79, 76, 44, 54, 46, 50, 10>>

\* The symbols the caller asks to watch ("a", "B").
Symbols == {<<97>>, <<66>>}

\* The decode failures of errors.rs (Number, Timestamp, Float).
DecodeErrors == {"Number", "Timestamp", "Float"}

VARIABLES
    wire,       \* bytes the peer has written that no read has returned yet
    buffer,     \* self.buffer, the accumulator
    scan_read,  \* the local scan_read of process
    pc,         \* position of the client: "new" (inside IQFeed::new),
                \* "no_connection" (new returned Err), "idle" (the caller owns the
                \* client), and inside process: "read", "scan", "send",
                \* "returned", "panicked"
    result,     \* the Err process returned with, "none" while it runs
    pending,    \* the frame whose decoded value the pending send holds (<<>> when none)
    chan,       \* number of messages queued in the channel
    rxClosed,   \* the consumer dropped its Receiver
    rcvd,       \* history: every byte a read has returned, in order
    drained,    \* history: every byte removed by buffer.drain, in drain order
    decoded,    \* history: every frame handed to Ops::parse, in order
    outcomes,   \* history: what Ops::parse returned for each of them
    sent,       \* history: every message the channel accepted, in order
    nreads,     \* history: reads that returned at least one byte
    eofReads,   \* history: reads that returned zero bytes
    sinceRead,  \* history: messages the channel accepted since the last read returned
    out,        \* every byte the client has written to the stream, in order
    watches     \* history: calls of watch_trades

vars == <<wire, buffer, scan_read, pc, result, pending, chan, rxClosed,
          rcvd, drained, decoded, outcomes, sent, nreads, eofReads, sinceRead,
          out, watches>>

\* ------------------------------------------------------------- helpers
Min(a, b) == IF a <= b THEN a ELSE b

\* All byte sequences of length at most n.
SeqsUpTo(n) == UNION {[1..k -> Byte] : k \in 0..n}

\* &s[from..]: the slice from 0-based offset `from` to the end.
SliceFrom(s, from) == SubSeq(s, from + 1, Len(s))

\* Mutant of memchr: the offset of the last occurrence (memrchr).
memchr_Last(needle, haystack) ==
    IF \E i \in 1..Len(haystack) : haystack[i] = needle
    THEN (CHOOSE i \in 1..Len(haystack) :
             /\ haystack[i] = needle
             /\ \A j \in (i + 1)..Len(haystack) : haystack[j] # needle) - 1
    ELSE None

\* memchr::memchr(needle, haystack): 0-based offset of the first occurrence.
memchr(needle, haystack) ==
    IF \E i \in 1..Len(haystack) : haystack[i] = needle
    THEN (CHOOSE i \in 1..Len(haystack) :
             /\ haystack[i] = needle
             /\ \A j \in 1..(i - 1) : haystack[j] # needle) - 1
    ELSE None

\* self.buffer.extend_from_slice(&buf[0..r])
extend_from_slice(b, chunk) == b \o chunk

\* The bytes Vec::drain(0..n) yields.
DrainTaken(b, n) == SubSeq(b, 1, n)

\* Mutant of DrainRest: the drain removes one byte more than it yields.
DrainRest_OneMore(b, n) == SubSeq(b, n + 2, Len(b))

\* The Vec after drain(0..n) is dropped.
DrainRest(b, n) == SubSeq(b, n + 1, Len(b))

\* Mutant of FrameEnd: the drained frame takes its delimiter along.
FrameEnd_WithDelimiter(sr, e) == sr + e + 1

\* The end of the frame drain: drain(0..(scan_read + e)).
FrameEnd(sr, e) == sr + e

\* Mutant of IsEmptyFrame: the zero-length case is not singled out.
IsEmptyFrame_Never(e) == FALSE

\* `if e == 0`: the delimiter is the first byte scanned.
IsEmptyFrame(e) == e = 0

\* Mutant of NotFoundCursor: max in place of min, the cursor moves to the
\* last byte scanned.
NotFoundCursor_Max(len) == IF len = 0 THEN 0 ELSE len - 1

\* min(self.buffer.len() - 1, 0) where the subtraction did not panic: with
\* len = 0 the wrapped difference is usize::MAX and the minimum is still 0.
NotFoundCursor(len) == IF len = 0 THEN 0 ELSE Min(len - 1, 0)

\* Mutant of AfterDelimiterDrain: the inner loop scans again.
AfterDelimiterDrain_Rescan == "scan"

\* The `break` after the drain of a delimiter at offset 0: back to the read.
AfterDelimiterDrain == "read"

\* Ops::parse(frame): Ok(Ops) or one of the decode errors.
ParseOutcomes(frame) == {"Ok"} \cup DecodeErrors

\* Mutant of Try: a decode error is swallowed and the loop goes on.
Try_SkipBadFrame(o) ==
    IF o = "Ok" THEN [pc |-> "send", result |-> "none"]
                ELSE [pc |-> "scan", result |-> "none"]

\* The `?` applied to the Result of Ops::parse: Ok goes on to the send, Err
\* returns from process with the error converted by #[from].
Try(o) ==
    IF o = "Ok" THEN [pc |-> "send", result |-> "none"]
                ELSE [pc |-> "returned", result |-> o]

\* The Ops value decoded from a frame.
Ops(frame) == [ops |-> frame]

\* Mutant of send: a closed channel is not noticed.
send_IgnoreClosed(closed, queued) ==
    IF queued >= ChanCap THEN "full" ELSE "ok"

\* Mutant of send: the channel takes a message although it is full.
send_NeverFull(closed, queued) ==
    IF closed THEN "err" ELSE "ok"

\* Sender::send: "err" when the receiver is gone, "full" while the bounded
\* channel has no room (the send stays suspended), "ok" otherwise.
send(closed, queued) ==
    IF closed THEN "err" ELSE IF queued >= ChanCap THEN "full" ELSE "ok"

\* Mutant of write_all: the bytes go out twice.
write_all_Twice(o, bytes) == o \o bytes \o bytes

\* stream.write_all(bytes)
write_all(o, bytes) == o \o bytes

\* str::to_uppercase on the bytes of an ASCII symbol.
to_uppercase(sym) ==
    [i \in 1..Len(sym) |-> IF sym[i] >= 97 /\ sym[i] <= 122 THEN sym[i] - 32 ELSE sym[i]]

\* format!("w{}\n", symbol.to_uppercase())
WatchCommand(sym) == <<119>> \o to_uppercase(sym) \o <<LF>>

\* The prefixes of bytes a failing write_all may have put on the stream.
StrictPrefixes(bytes) == {SubSeq(bytes, 1, k) : k \in 0..(Len(bytes) - 1)}

\* Mutant of CallerOwnsClient: the running loop shares the client.
CallerOwnsClient_Shared(p) == p \in {"idle", "read", "scan", "send"}

\* watch_trades takes &mut self and process takes self by value: the caller
\* can call watch_trades only while it holds the client, before process.
CallerOwnsClient(p) == p = "idle"

\* ---------------------------------------------------------------- Init
\* The loop alone: process has just been called on a fresh connection.
Init ==
    /\ wire \in SeqsUpTo(MaxStream)
    /\ out = Handshake
    /\ watches = 0
    /\ buffer = <<>>
    /\ scan_read = 0
    /\ pc = "read"
    /\ result = "none"
    /\ pending = <<>>
    /\ chan = 0
    /\ rxClosed = FALSE
    /\ rcvd = <<>>
    /\ drained = <<>>
    /\ decoded = <<>>
    /\ outcomes = <<>>
    /\ sent = <<>>
    /\ nreads = 0
    /\ eofReads = 0
    /\ sinceRead = 0

\* The whole client: IQFeed::new has been called and has done nothing yet.
InitClient ==
    /\ wire \in SeqsUpTo(MaxClientStream)
    /\ out = <<>>
    /\ watches = 0
    /\ buffer = <<>>
    /\ scan_read = 0
    /\ pc = "new"
    /\ result = "none"
    /\ pending = <<>>
    /\ chan = 0
    /\ rxClosed = FALSE
    /\ rcvd = <<>>
    /\ drained = <<>>
    /\ decoded = <<>>
    /\ outcomes = <<>>
    /\ sent = <<>>
    /\ nreads = 0
    /\ eofReads = 0
    /\ sinceRead = 0

\* ------------------------------------------------------------- actions
\* IQFeed::new: connect and write_all succeed, the client is returned.
NewOk ==
    /\ pc = "new"
    /\ out' = write_all(out, Handshake)
    /\ pc' = "idle"
    /\ UNCHANGED <<wire, buffer, scan_read, result, pending, chan, rxClosed,
                   rcvd, drained, decoded, outcomes, sent, nreads, eofReads,
                   sinceRead, watches>>

\* IQFeed::new: TcpStream::connect fails, `?` returns the error.
NewConnectErr ==
    /\ pc = "new"
    /\ pc' = "no_connection"
    /\ UNCHANGED <<wire, buffer, scan_read, result, pending, chan, rxClosed,
                   rcvd, drained, decoded, outcomes, sent, nreads, eofReads,
                   sinceRead, out, watches>>

\* IQFeed::new: write_all fails part way, `?` returns the error.
NewWriteErr ==
    /\ pc = "new"
    /\ \E part \in StrictPrefixes(Handshake) : out' = write_all(out, part)
    /\ pc' = "no_connection"
    /\ UNCHANGED <<wire, buffer, scan_read, result, pending, chan, rxClosed,
                   rcvd, drained, decoded, outcomes, sent, nreads, eofReads,
                   sinceRead, watches>>

\* watch_trades: the command is written.
WatchOk ==
    /\ CallerOwnsClient(pc)
    /\ watches < MaxWatches
    /\ \E sym \in Symbols : out' = write_all(out, WatchCommand(sym))
    /\ watches' = watches + 1
    /\ UNCHANGED <<pc, wire, buffer, scan_read, result, pending, chan, rxClosed,
                   rcvd, drained, decoded, outcomes, sent, nreads, eofReads,
                   sinceRead>>

\* watch_trades: write_all fails part way and Err is returned to the caller.
WatchErr ==
    /\ CallerOwnsClient(pc)
    /\ watches < MaxWatches
    /\ \E sym \in Symbols :
          \E part \in StrictPrefixes(WatchCommand(sym)) : out' = write_all(out, part)
    /\ watches' = watches + 1
    /\ UNCHANGED <<pc, wire, buffer, scan_read, result, pending, chan, rxClosed,
                   rcvd, drained, decoded, outcomes, sent, nreads, eofReads,
                   sinceRead>>

\* The caller hands the client to process.
Process ==
    /\ pc = "idle"
    /\ pc' = "read"
    /\ UNCHANGED <<wire, buffer, scan_read, result, pending, chan, rxClosed,
                   rcvd, drained, decoded, outcomes, sent, nreads, eofReads,
                   sinceRead, out, watches>>

\* stream.read returns r >= 1 bytes, which are appended to the buffer.
ReadData ==
    /\ pc = "read"
    /\ wire # <<>>
    /\ \E r \in 1..Min(Len(wire), ScratchLen) :
          /\ buffer' = extend_from_slice(buffer, SubSeq(wire, 1, r))
          /\ rcvd' = rcvd \o SubSeq(wire, 1, r)
          /\ wire' = SliceFrom(wire, r)
    /\ nreads' = nreads + 1
    /\ sinceRead' = 0
    /\ pc' = "scan"
    /\ UNCHANGED <<out, watches, scan_read, result, pending, chan, rxClosed, drained,
                   decoded, outcomes, sent, eofReads>>

\* stream.read returns Ok(0): the peer closed after everything it wrote was
\* read. `?` lets it through and nothing is appended.
ReadEof ==
    /\ pc = "read"
    /\ wire = <<>>
    /\ eofReads < MaxEofReads
    /\ buffer' = extend_from_slice(buffer, <<>>)
    /\ eofReads' = eofReads + 1
    /\ sinceRead' = 0
    /\ pc' = "scan"
    /\ UNCHANGED <<out, watches, wire, scan_read, result, pending, chan, rxClosed, rcvd,
                   drained, decoded, outcomes, sent, nreads>>

\* Mutant of ReadErr: the read error is dropped and process returns Ok(()).
ReadErr_ReturnsOk ==
    /\ pc = "read"
    /\ pc' = "returned"
    /\ UNCHANGED <<out, watches, wire, buffer, scan_read, result, pending, chan,
                   rxClosed, rcvd, drained, decoded, outcomes, sent, nreads,
                   eofReads, sinceRead>>

\* stream.read returns Err: `?` returns Error::Tcp.
ReadErr ==
    /\ pc = "read"
    /\ pc' = "returned"
    /\ result' = "Tcp"
    /\ UNCHANGED <<out, watches, wire, buffer, scan_read, pending, chan, rxClosed, rcvd,
                   drained, decoded, outcomes, sent, nreads, eofReads, sinceRead>>

\* One pass of the inner loop with a delimiter at offset 0: drain it, break.
ScanEmpty ==
    /\ pc = "scan"
    /\ scan_read <= Len(buffer)
    /\ LET e == memchr(LF, SliceFrom(buffer, scan_read)) IN
          /\ e # None
          /\ IsEmptyFrame(e)
          /\ buffer' = DrainRest(buffer, 1)
          /\ drained' = drained \o DrainTaken(buffer, 1)
    /\ pc' = AfterDelimiterDrain
    /\ UNCHANGED <<out, watches, wire, scan_read, result, pending, chan, rxClosed, rcvd,
                   decoded, outcomes, sent, nreads, eofReads, sinceRead>>

\* One pass of the inner loop with a delimiter at offset e > 0: drain the
\* frame, decode it; a decode error returns, a value goes to the send.
ScanFrame ==
    /\ pc = "scan"
    /\ scan_read <= Len(buffer)
    /\ LET e == memchr(LF, SliceFrom(buffer, scan_read))
           n == FrameEnd(scan_read, e)
           frame == DrainTaken(buffer, n) IN
          /\ e # None
          /\ ~IsEmptyFrame(e)
          /\ buffer' = DrainRest(buffer, n)
          /\ drained' = drained \o frame
          /\ decoded' = Append(decoded, frame)
          /\ \E o \in ParseOutcomes(frame) :
                /\ outcomes' = Append(outcomes, o)
                /\ pc' = Try(o).pc
                /\ result' = Try(o).result
                /\ pending' = IF o = "Ok" THEN frame ELSE pending
    /\ UNCHANGED <<out, watches, wire, scan_read, chan, rxClosed, rcvd, sent, nreads,
                   eofReads, sinceRead>>

\* One pass of the inner loop with no delimiter: reset the cursor, break.
\* With an empty buffer, len() - 1 overflows: a build with overflow checks
\* panics, a build without them wraps.
ScanNotFound ==
    /\ pc = "scan"
    /\ scan_read <= Len(buffer)
    /\ memchr(LF, SliceFrom(buffer, scan_read)) = None
    /\ \/ /\ scan_read' = NotFoundCursor(Len(buffer))
          /\ pc' = "read"
       \/ /\ Len(buffer) = 0
          /\ pc' = "panicked"
          /\ scan_read' = scan_read
    /\ UNCHANGED <<out, watches, wire, buffer, result, pending, chan, rxClosed, rcvd,
                   drained, decoded, outcomes, sent, nreads, eofReads, sinceRead>>

\* The suspended send completes: the channel takes the message.
SendOk ==
    /\ pc = "send"
    /\ send(rxClosed, chan) = "ok"
    /\ chan' = chan + 1
    /\ sent' = Append(sent, Ops(pending))
    /\ sinceRead' = sinceRead + 1
    /\ pending' = <<>>
    /\ pc' = "scan"
    /\ UNCHANGED <<out, watches, wire, buffer, scan_read, result, rxClosed, rcvd, drained,
                   decoded, outcomes, nreads, eofReads>>

\* The send fails with SendError: `?` returns Error::Channel.
SendErr ==
    /\ pc = "send"
    /\ send(rxClosed, chan) = "err"
    /\ pc' = "returned"
    /\ result' = "Channel"
    /\ UNCHANGED <<out, watches, wire, buffer, scan_read, pending, chan, rxClosed, rcvd,
                   drained, decoded, outcomes, sent, nreads, eofReads, sinceRead>>

\* The consumer takes one message off the channel.
ConsumerRecv ==
    /\ ~rxClosed
    /\ chan > 0
    /\ chan' = chan - 1
    /\ UNCHANGED <<out, watches, wire, buffer, scan_read, pc, result, pending, rxClosed,
                   rcvd, drained, decoded, outcomes, sent, nreads, eofReads, sinceRead>>

\* The consumer drops its Receiver: the channel is closed.
ConsumerClose ==
    /\ ~rxClosed
    /\ rxClosed' = TRUE
    /\ UNCHANGED <<out, watches, wire, buffer, scan_read, pc, result, pending, chan, rcvd,
                   drained, decoded, outcomes, sent, nreads, eofReads, sinceRead>>

Next ==
    \/ ReadData
    \/ ReadEof
    \/ ReadErr
    \/ ScanEmpty
    \/ ScanFrame
    \/ ScanNotFound
    \/ SendOk
    \/ SendErr
    \/ ConsumerRecv
    \/ ConsumerClose

Spec == Init /\ [][Next]_vars

NextClient ==
    \/ NewOk
    \/ NewConnectErr
    \/ NewWriteErr
    \/ WatchOk
    \/ WatchErr
    \/ Process
    \/ Next

SpecClient == InitClient /\ [][NextClient]_vars

TypeOK ==
    /\ pc \in {"new", "no_connection", "idle", "read", "scan", "send", "returned",
              "panicked"}
    /\ result \in {"none", "Tcp", "Channel"} \cup DecodeErrors
    /\ scan_read \in 0..MaxStream
    /\ chan \in 0..ChanCap

\* ------------------------------------------------- vocabulary of the claims
RECURSIVE Frames(_)
\* The complete frames of a byte sequence: the runs of bytes that end at a
\* delimiter, delimiter excluded, in order (a trailing partial frame is not one).
Frames(s) ==
    IF \A i \in 1..Len(s) : s[i] # LF
    THEN <<>>
    ELSE LET p == CHOOSE i \in 1..Len(s) :
                     /\ s[i] = LF
                     /\ \A j \in 1..(i - 1) : s[j] # LF
         IN <<SubSeq(s, 1, p - 1)>> \o Frames(SubSeq(s, p + 1, Len(s)))

IsNonEmpty(f) == f # <<>>

NonEmptyFrames(s) == SelectSeq(Frames(s), IsNonEmpty)

\* The messages decoded from a sequence of frames.
Messages(fs) == [i \in 1..Len(fs) |-> Ops(fs[i])]

IsPrefix(a, b) == Len(a) <= Len(b) /\ a = SubSeq(b, 1, Len(a))

\* A concatenation of <non-empty frame><delimiter>.
WellFormed(s) ==
    /\ s = <<>> \/ s[Len(s)] = LF
    /\ \A i \in 1..Len(Frames(s)) : Frames(s)[i] # <<>>

\* Every chunk of the stream has been read, the peer has not closed, and
\* process is waiting on its next read.
AllReadAndWaiting == pc = "read" /\ wire = <<>> /\ eofReads = 0

\* C1: for a well-formed stream, however it was split into reads, once all
\* of it has been read and the loop waits on the next read, the frames handed
\* to the decoder and the messages forwarded are the frames of the stream.
C1_ChunkingIndependence ==
    (AllReadAndWaiting /\ WellFormed(rcvd))
        => /\ decoded = Frames(rcvd)
           /\ sent = Messages(Frames(rcvd))

\* C2: the messages sent so far are a prefix of the non-empty frames of the
\* bytes received so far, in wire order.
C2_SentInWireOrder == IsPrefix(sent, Messages(NonEmptyFrames(rcvd)))

\* Two frames arrived and both were forwarded.
C2_Witness == sent = <<Ops(<<88>>), Ops(<<89>>)>>

\* C3: whenever a read is issued after the first one, the accumulator holds
\* no delimiter: every complete frame was extracted before the read.
C3_NoDelimiterLeftAtRead ==
    (pc = "read" /\ nreads + eofReads > 0) => memchr(LF, buffer) = None

\* C4: once a read has returned zero bytes, process has returned with the
\* transport error.
C4_ZeroReadCloses == eofReads > 0 => (pc = "returned" /\ result = "Tcp")

\* C5: if decoding of the k-th frame fails, frame k and every later frame
\* are never sent, nothing is sent in its place, and process has returned
\* that decode error.
C5_FailFastOnDecodeError ==
    \A k \in 1..Len(outcomes) :
        outcomes[k] # "Ok" =>
            /\ k = Len(decoded)
            /\ pc = "returned"
            /\ result = outcomes[k]
            /\ result \in DecodeErrors
            /\ sent = Messages(SubSeq(decoded, 1, k - 1))

\* A decode failed while a later complete frame was already in the buffer.
C5_Witness ==
    /\ result \in DecodeErrors
    /\ NonEmptyFrames(buffer) # <<>>

\* C6: a send attempted while the consumer side is closed fails once, process
\* returns the channel error, and no read or send follows; the channel error
\* has no other cause.
C6_ClosedChannelIsFatal ==
    [][/\ (pc = "send" /\ rxClosed) =>
            (pc' = "returned" /\ result' = "Channel" /\ sent' = sent)
       /\ (result' = "Channel" /\ result # "Channel") => (pc = "send" /\ rxClosed)
       /\ result = "Channel" =>
            (pc' = "returned" /\ result' = "Channel" /\ sent' = sent
             /\ nreads' = nreads /\ eofReads' = eofReads /\ decoded' = decoded)]_vars

\* process returned the channel error.
C6_Witness == pc = "returned" /\ result = "Channel" /\ rxClosed /\ pending # <<>>

\* C7: when process returns the channel error, every received byte is either
\* in a frame delivered to the consumer, a delimiter of one, a discarded
\* empty frame, or still in the accumulator: the accumulator is the received
\* bytes after the delivered frames, so the frame whose send failed is in it.
C7_NothingLostOnChannelError ==
    result = "Channel" =>
        \E k \in 0..Len(rcvd) :
            /\ buffer = SliceFrom(rcvd, k)
            /\ k = 0 \/ rcvd[k] = LF
            /\ sent = Messages(NonEmptyFrames(SubSeq(rcvd, 1, k)))

\* C8: a delimiter met at the head of the accumulator is dropped with no
\* decoder call, no send and no error, and the decoder never sees a
\* zero-length frame.
C8_EmptyFramesDiscarded ==
    [][/\ \A i \in 1..Len(decoded') : decoded'[i] # <<>>
       /\ (pc = "scan" /\ buffer # <<>> /\ buffer[1] = LF) =>
            /\ decoded' = decoded
            /\ sent' = sent
            /\ result' = "none"
            /\ pc' \in {"scan", "read"}
            /\ pc' = "read" => buffer' = Tail(buffer)]_vars

\* A leading delimiter and the one after it were both dropped quietly.
C8_Witness ==
    /\ Len(rcvd) >= 2
    /\ rcvd[1] = LF
    /\ rcvd[2] = LF
    /\ Len(drained) >= 2
    /\ decoded = <<>>
    /\ result = "none"

\* C9: every byte sequence handed to the decoder is a whole frame that a
\* delimiter follows on the wire, each such frame handed over once and in
\* order, however many reads its bytes came in.
C9_OnlyWholeFramesDecoded == IsPrefix(decoded, NonEmptyFrames(rcvd))

\* The frame XY arrived one byte per read and was decoded once, whole.
C9_Witness ==
    /\ nreads = 3
    /\ rcvd = <<88, 89, LF>>
    /\ decoded = <<<<88, 89>>>>

\* C10: the bytes drained so far followed by the accumulator are the bytes
\* received so far, and the accumulator changes only by an append of the
\* bytes a read returned or by a drain of a prefix.
C10_ByteConservation ==
    [][/\ drained' \o buffer' = rcvd'
       /\ \/ buffer' = buffer /\ rcvd' = rcvd /\ drained' = drained
          \/ /\ Len(rcvd') > Len(rcvd)
             /\ buffer' = buffer \o SliceFrom(rcvd', Len(rcvd))
             /\ drained' = drained
          \/ \E n \in 1..Len(buffer) :
                /\ buffer' = SliceFrom(buffer, n)
                /\ drained' = drained \o SubSeq(buffer, 1, n)
                /\ rcvd' = rcvd]_vars

\* Bytes were appended by two reads and a frame and its delimiter drained.
C10_Witness ==
    /\ nreads >= 2
    /\ Len(drained) >= 2
    /\ buffer # <<>>

\* The messages decoded successfully so far.
OkCount == Cardinality({i \in 1..Len(outcomes) : outcomes[i] = "Ok"})

\* C11: while the send is suspended on a full channel, process reads nothing
\* and extracts no frame; it leaves the send only by the channel taking the
\* message or by the channel error; the channel never holds more than its
\* capacity and the loop holds at most one decoded message outside it.
C11_Backpressure ==
    [][/\ (pc = "send" /\ ~rxClosed /\ chan >= ChanCap) =>
            /\ pc' = "send"
            /\ pending' = pending
            /\ buffer' = buffer
            /\ decoded' = decoded
            /\ nreads' = nreads
            /\ eofReads' = eofReads
            /\ sent' = sent
       /\ (pc = "send" /\ pc' # "send") =>
            \/ pc' = "scan" /\ sent' = Append(sent, Ops(pending)) /\ chan < ChanCap
            \/ pc' = "returned" /\ result' = "Channel" /\ sent' = sent
       /\ chan' <= ChanCap
       /\ OkCount' - Len(sent') \in {0, 1}
       /\ (OkCount' - Len(sent') = 1) => pc' \in {"send", "returned"}]_vars

\* A send is suspended on a full channel while received bytes wait in the
\* accumulator.
C11_Witness ==
    /\ pc = "send"
    /\ buffer # <<>>
    /\ ~rxClosed
    /\ chan = ChanCap
    /\ chan > 0
    /\ pending # <<>>

\* process is running its loop.
Streaming == pc \in {"read", "scan", "send"}

\* The handshake occurs in the written bytes at offset 0 and nowhere else.
HandshakeOnce ==
    /\ IsPrefix(Handshake, out)
    /\ \A i \in 2..(Len(out) - Len(Handshake) + 1) :
          SubSeq(out, i, i + Len(Handshake) - 1) # Handshake

\* C12: IQFeed::new writes the handshake once, before any watch command and
\* before any byte is read; a client exists only after the whole handshake
\* went out, new reads nothing, and a failed connect or write leaves no
\* client, no watch command and no read.
C12_HandshakeFirst ==
    /\ pc = "new" => (out = <<>> /\ watches = 0 /\ nreads + eofReads = 0)
    /\ pc = "no_connection" =>
          (out \in StrictPrefixes(Handshake) /\ watches = 0 /\ nreads + eofReads = 0)
    /\ pc \notin {"new", "no_connection"} =>
          (HandshakeOnce /\ (watches = 0 => out = Handshake))
    /\ pc = "idle" => (rcvd = <<>> /\ nreads + eofReads = 0)

\* The handshake, then a watch command, then a read that returned bytes.
C12_Witness ==
    /\ out = Handshake \o WatchCommand(<<97>>)
    /\ nreads >= 1

Max(a, b) == IF a >= b THEN a ELSE b

\* The step of the inner loop that found no delimiter (or panicked looking
\* for the new cursor): process leaves the scan with the accumulator as it was.
NotFoundStep ==
    /\ pc = "scan"
    /\ pc' \in {"read", "panicked"}
    /\ buffer' = buffer

\* C14: when a scan finds no delimiter the cursor becomes
\* max(0, length(accumulator) - 1): n - 1 for an accumulator of n >= 2 bytes.
C14_CursorAfterFailedScan ==
    [][(NotFoundStep /\ pc' = "read") =>
          scan_read' = Max(0, Len(buffer) - 1)]_vars

\* C15: a delimiter at the start of the unconsumed region is drained alone
\* and the scan runs again on the rest with no read in between.
C15_RescanAfterEmptyFrame ==
    [][(pc = "scan" /\ buffer # <<>> /\ buffer[1] = LF /\ buffer' # buffer) =>
          /\ buffer' = Tail(buffer)
          /\ pc' = "scan"
          /\ nreads' = nreads
          /\ eofReads' = eofReads]_vars

\* C16: the drain that takes a non-empty frame out of the accumulator takes
\* its delimiter too (length of the frame + 1 bytes), the decoder gets the
\* frame without the delimiter, and the accumulator then starts at the byte
\* after the delimiter.
C16_FrameDrainTakesDelimiter ==
    [][decoded' # decoded =>
          LET f == decoded'[Len(decoded')] IN
             /\ \A i \in 1..Len(f) : f[i] # LF
             /\ f = SubSeq(buffer, 1, Len(f))
             /\ buffer[Len(f) + 1] = LF
             /\ buffer' = SliceFrom(buffer, Len(f) + 1)]_vars

\* C17: the cursor stays within the accumulator, and it is 0 after every
\* drain, so the slice of a scan never starts past the end.
C17_CursorBounds ==
    [][/\ 0 <= scan_read /\ scan_read <= Len(buffer)
       /\ 0 <= scan_read' /\ scan_read' <= Len(buffer')
       /\ Len(buffer') < Len(buffer) => scan_read' = 0]_vars

\* A scan found nothing in X, the next read brought the delimiter, and the
\* frame and the delimiter were drained.
C17_Witness ==
    /\ nreads = 2
    /\ rcvd = <<88, LF>>
    /\ drained = <<88, LF>>
    /\ scan_read = 0

\* C18: process returns only with a transport, decode or dispatch error,
\* never with success; once it has returned nothing more is read, scanned,
\* decoded or sent; a read error is what returns the Tcp error, at once.
C18_ClosedIsTerminal ==
    [][/\ pc' = "returned" => result' \in ({"Tcp", "Channel"} \cup DecodeErrors)
       /\ pc = "returned" =>
            /\ pc' = "returned"
            /\ result' = result
            /\ nreads' = nreads
            /\ eofReads' = eofReads
            /\ buffer' = buffer
            /\ scan_read' = scan_read
            /\ decoded' = decoded
            /\ sent' = sent
       /\ (result' = "Tcp" /\ result # "Tcp") =>
            (pc = "read" /\ pc' = "returned" /\ rcvd' = rcvd /\ buffer' = buffer)]_vars

\* A read failed after a frame had been forwarded and with bytes buffered.
C18_Witness ==
    /\ pc = "returned"
    /\ result = "Tcp"
    /\ sent # <<>>
    /\ buffer # <<>>

\* C19: at most one message is sent between two reads: after a send the
\* accumulator starts with the delimiter of the frame sent, and the drain of
\* it goes back to the read.
C19_OneSendPerRead ==
    /\ sinceRead <= 1
    /\ (pc = "scan" /\ sinceRead = 1) => (buffer # <<>> /\ buffer[1] = LF)
    /\ (pc = "send") => sinceRead = 0

\* One read brought two complete frames; one was sent and the loop is back
\* at the read with the other still in the accumulator.
C19_Witness ==
    /\ pc = "read"
    /\ nreads = 1
    /\ eofReads = 0
    /\ sinceRead = 1
    /\ Len(sent) = 1
    /\ NonEmptyFrames(buffer) # <<>>

\* C20: length(accumulator) - 1 of the not-found branch is never computed
\* with an empty accumulator.
C20_NoUnderflow ==
    [][NotFoundStep => Len(buffer) > 0]_vars
====
